---- MODULE Spec2Model ----
(***************************************************************************)
(* Model of mongo-lazy-schema: one call of a schema enforcer built by      *)
(* createSchema (index.ts), which runs updatedDocuments                    *)
(* (updateDocuments.ts) over transformInput (transformInput.ts) and        *)
(* persistChangedDocuments (persistChangedDocuments.ts).                   *)
(*                                                                         *)
(* A document is a record [k, id, v, hist, f]: k is "doc" for an object    *)
(* and "undefined" / "null" / "false" for a falsy element, id is _id, v is *)
(* _v, hist lists the revisions that were applied to it and f maps every   *)
(* field name to a field value [k, v, hist] (k = "undefined" for an absent *)
(* field, "val" for a plain value, "doc" for an embedded document).        *)
(***************************************************************************)
EXTENDS Integers, Sequences, FiniteSets, TLC

\* ---------------------------------------------------------------- bounds
MaxDocs == 2
MaxRevisions == 2

\* nested schemas are built as in the tests: createSchema([ { update } ], 'embedded')
EmbeddedSchemaVersion == 1

EmbeddedNames == {"e", "f"}
AllFields == {"a"} \cup EmbeddedNames
FalsyKinds == {"undefined", "null", "false"}

VARIABLES
  ctx,                      \* Context bound by createSchema
  rawInput,                 \* the input argument: [pending, array, value]
  collection,               \* TRUE iff a collection argument was passed
  projection,               \* the projection argument: field name -> value
  pc,                       \* position inside updatedDocuments
  input,                    \* the awaited, normalised input
  singleDocument,
  documentsByVersion,       \* version -> [documents, metaData]
  embeddedDocuments,        \* embedded name -> list of values
  updatedEmbeddedDocuments, \* embedded name -> list returned by its schema
  embeddedPromises,         \* embedded name -> promise of its nested schema
  version,                  \* loop variable of the driver loop
  promises,                 \* the promises line 66 hands to Promise.all
  result,                   \* documentsByVersion[schemaVersion].documents
  calls,                    \* log of transform invocations
  embeddedCalls,            \* log of nested schema invocations
  bulkWrites,               \* log of collection.bulkWrite invocations
  error,                    \* "none" or the failure the call rejected with
  returned                  \* the value the call resolved with

vars == <<ctx, rawInput, collection, projection, pc, input, singleDocument,
          documentsByVersion, embeddedDocuments, updatedEmbeddedDocuments,
          embeddedPromises, version, promises, result, calls, embeddedCalls,
          bulkWrites, error, returned>>

\* ------------------------------------------------------------ values
Undefined == [k |-> "undefined", v |-> 0, hist |-> <<>>]
PlainValue == [k |-> "val", v |-> 0, hist |-> <<>>]
EmbeddedDoc(v) == [k |-> "doc", v |-> v, hist |-> <<>>]
\* an embedded document written by a top-level transform (hist marks its origin)
TransformMadeDoc == [k |-> "doc", v |-> EmbeddedSchemaVersion, hist |-> <<-1>>]

NoFields == [n \in AllFields |-> Undefined]
FalsyDocument(k) == [k |-> k, id |-> 0, v |-> 0, hist |-> <<>>, f |-> NoFields]
UndefinedDocument == FalsyDocument("undefined")

\* JavaScript truthiness of an element or field value
Truthy(d) == d.k \in {"doc", "val"}

\* Object.keys(document), without _id and _v
ObjectKeys(d) == {n \in AllFields : d.f[n].k # "undefined"}

\* a read that yields undefined for every falsy parent
FieldOfOrUndefined(d, n) == IF Truthy(d) THEN d.f[n] ELSE Undefined

\* document && document[name]
FieldOf(d, n) == IF Truthy(d) THEN d.f[n] ELSE [k |-> d.k, v |-> 0, hist |-> <<>>]

Min(S) == CHOOSE x \in S : \A y \in S : x <= y

\* ------------------------------------------------------ createSchema
\* index.ts: second argument 'embedded' or a map of embedded schemas (here
\* the set of its keys; every nested schema has EmbeddedSchemaVersion).
CreateSchema(revisions, embedded, schemas) ==
  [ schemaVersion |-> Len(revisions),
    embedded |-> embedded,
    embeddedDocumentSchemas |-> IF embedded THEN {} ELSE schemas,
    hasEmbeddedDocuments |-> ~embedded /\ Cardinality(schemas) > 0,
    embeddedSchemaVersions |-> [n \in (IF embedded THEN {} ELSE schemas) |-> EmbeddedSchemaVersion],
    revisions |-> revisions ]

\* the context of a nested schema: createSchema([ { update } ], 'embedded')
EmbeddedContext ==
  CreateSchema([i \in 1..EmbeddedSchemaVersion |-> [kind |-> "update", effect |-> "keep"]], TRUE, {})

\* a filter that ignores the projection
AllEmbeddedDocumentNames(c, proj) == c.embeddedDocumentSchemas

\* Object.keys(this.embeddedDocumentSchemas).filter(name => projection[name] !== false)
ProjectedEmbeddedDocumentNames(c, proj) ==
  {n \in c.embeddedDocumentSchemas : ~(n \in DOMAIN proj /\ proj[n] = FALSE)}

\* a validation that accepts every projection
ProjectionInvalidNever(proj) == FALSE

\* validateProjection: TRUE iff it throws
ProjectionInvalid(proj) == \E key \in DOMAIN proj : proj[key] # FALSE

\* ------------------------------------------------------ the transforms
\* What a transform of the revision chain does to the fields of a document.
\* "drop" removes the plain field and the field e, "setE" writes a field e.
ApplyEffect(effect, f) ==
  CASE effect = "drop" -> [f EXCEPT !["a"] = Undefined, !["e"] = Undefined]
    [] effect = "setE" -> [f EXCEPT !["e"] = TransformMadeDoc]
    [] OTHER -> f

\* A transform that honours its contract: revision i returns _v = i + 1.
Revise(revision, i, d) ==
  IF revision.effect = "keep"
  THEN [d EXCEPT !.v = i + 1, !.hist = Append(@, i)]
  ELSE [d EXCEPT !.v = i + 1, !.hist = Append(@, i), !.f = ApplyEffect(revision.effect, @)]

Reverse(s) == [k \in 1..Len(s) |-> s[Len(s) + 1 - k]]

\* a document a batch transform returns in addition to those it was passed
ExtraDocument(i) ==
  [k |-> "doc", id |-> MaxDocs + 1, v |-> i + 1, hist |-> <<i>>,
   f |-> [NoFields EXCEPT !["a"] = PlainValue]]

\* The value a transform invocation resolves with, for each way it can behave:
\* "ok", "reversed" (a batch transform answering in another order) and
\* "mismatch" (the document at position `at` comes back with its old _v).  A
\* batch transform of effect "dropLast" returns one document less than it was
\* passed, one of effect "extra" one more.
TransformOutput(revision, i, documents, outcome) ==
  LET good == [k \in 1..Len(documents) |-> Revise(revision, i, documents[k])]
      answer == CASE outcome.type = "reversed" -> Reverse(good)
                  [] outcome.type = "mismatch" -> [good EXCEPT ![outcome.at] = documents[outcome.at]]
                  [] OTHER -> good
  IN CASE revision.effect = "dropLast" -> SubSeq(answer, 1, Len(answer) - 1)
       [] revision.effect = "extra" -> Append(answer, ExtraDocument(i))
       [] OTHER -> answer

\* ------------------------------------------------------ transformInput
EmptyBucket == [documents |-> <<>>, metaData |-> <<>>]

\* bucketing that files a falsy element under version 0
VersionOfFalsyZero(c, document) == IF Truthy(document) THEN document.v ELSE 0

\* transformInput.ts line 38: a falsy element counts as up to date
VersionOf(c, document) == IF Truthy(document) THEN document.v ELSE c.schemaVersion

\* a flag that looks at the document's own version only
DocumentWillBeUpdatedByVersionOnly(c, names, document) ==
  VersionOf(c, document) < c.schemaVersion

\* a flag that also marks documents that are already current
DocumentWillBeUpdatedInclusive(c, names, document) ==
  Truthy(document) /\ VersionOf(c, document) <= c.schemaVersion

\* transformInput.ts lines 39-49: stale by its own version, or by the version
\* of a projected embedded document
DocumentWillBeUpdated(c, names, document) ==
  \/ VersionOf(c, document) < c.schemaVersion
  \/ \E n \in names :
       /\ Truthy(FieldOf(document, n))
       /\ FieldOf(document, n).v < c.embeddedSchemaVersions[n]

\* transformInput.ts lines 36-60, from input element i on (i is 1-based here,
\* metaData.index keeps the 0-based array index of the code)
RECURSIVE TransformInputFrom(_, _, _, _, _)
TransformInputFrom(c, in, names, i, acc) ==
  IF i > Len(in) THEN acc
  ELSE
    LET document == in[i]
        ver == VersionOf(c, document)
        bucket == IF ver \in DOMAIN acc.documentsByVersion
                  THEN acc.documentsByVersion[ver] ELSE EmptyBucket
        meta == [ index |-> i - 1,
                  willBeUpdated |-> DocumentWillBeUpdated(c, names, document),
                  initialFields |->
                    IF c.hasEmbeddedDocuments /\ Truthy(document)
                    THEN [defined |-> TRUE, keys |-> ObjectKeys(document)]
                    ELSE [defined |-> FALSE, keys |-> {}] ]
        newBucket == [ documents |-> Append(bucket.documents, document),
                       metaData |-> Append(bucket.metaData, meta) ]
    IN TransformInputFrom(c, in, names, i + 1,
         [ documentsByVersion |->
             [w \in DOMAIN acc.documentsByVersion \cup {ver} |->
                IF w = ver THEN newBucket ELSE acc.documentsByVersion[w]],
           embeddedDocuments |->
             [n \in names |-> Append(acc.embeddedDocuments[n], FieldOf(document, n))] ])

TransformInput(c, in, proj) ==
  LET names == ProjectedEmbeddedDocumentNames(c, proj)
  IN TransformInputFrom(c, in, names, 1,
       [ documentsByVersion |-> [w \in {} |-> EmptyBucket],
         embeddedDocuments |-> [n \in names |-> <<>>] ])

\* ------------------------------------------------------ the driver loop
\* a driver that forgets the version check
VersionsValidUnchecked(documents, ver) == TRUE

\* updateDocuments.ts lines 69-73: TRUE iff no version mismatch is thrown
VersionsValid(documents, ver) == \A k \in 1..Len(documents) : documents[k].v = ver + 1

\* Array.prototype.shift: the removed head (undefined on an empty array)
ShiftDocument(s) == IF Len(s) = 0 THEN UndefinedDocument ELSE Head(s)
\* a shift that leaves the array as it was
RestUnshifted(s) == s
Rest(s) == IF Len(s) = 0 THEN s ELSE Tail(s)

\* a merge that appends the next bucket instead of interleaving by index
MergeLoopAppending(i, documentCount, documents, metaData, nvDocuments, nvMetaData, res) ==
  [documents |-> documents \o nvDocuments, metaData |-> metaData \o nvMetaData]

\* a merge that forgets to flush the list that is left over
RECURSIVE MergeLoopNoFlush(_, _, _, _, _, _, _)
MergeLoopNoFlush(i, documentCount, documents, metaData, nvDocuments, nvMetaData, res) ==
  IF i >= documentCount \/ Len(metaData) = 0 \/ Len(nvMetaData) = 0 THEN res
  ELSE IF nvMetaData[1].index < metaData[1].index
    THEN MergeLoopNoFlush(i + 1, documentCount, documents, metaData, Rest(nvDocuments), Rest(nvMetaData),
           [ documents |-> Append(res.documents, ShiftDocument(nvDocuments)),
             metaData |-> Append(res.metaData, Head(nvMetaData)) ])
  ELSE MergeLoopNoFlush(i + 1, documentCount, Rest(documents), Rest(metaData), nvDocuments, nvMetaData,
           [ documents |-> Append(res.documents, ShiftDocument(documents)),
             metaData |-> Append(res.metaData, Head(metaData)) ])

\* updateDocuments.ts lines 83-103, the two-pointer interleave from iteration i
RECURSIVE MergeLoop(_, _, _, _, _, _, _)
MergeLoop(i, documentCount, documents, metaData, nvDocuments, nvMetaData, res) ==
  IF i >= documentCount THEN res
  ELSE IF Len(metaData) = 0
    THEN [documents |-> res.documents \o nvDocuments, metaData |-> res.metaData \o nvMetaData]
  ELSE IF Len(nvMetaData) = 0
    THEN [documents |-> res.documents \o documents, metaData |-> res.metaData \o metaData]
  ELSE IF nvMetaData[1].index < metaData[1].index
    THEN MergeLoop(i + 1, documentCount, documents, metaData, Rest(nvDocuments), Rest(nvMetaData),
           [ documents |-> Append(res.documents, ShiftDocument(nvDocuments)),
             metaData |-> Append(res.metaData, Head(nvMetaData)) ])
  ELSE MergeLoop(i + 1, documentCount, Rest(documents), Rest(metaData), nvDocuments, nvMetaData,
           [ documents |-> Append(res.documents, ShiftDocument(documents)),
             metaData |-> Append(res.metaData, Head(metaData)) ])

\* a merge that resets the bucket at ver + 1 before reading it
MergeIntoOverwriting(dbv, ver, documents) ==
  [w \in DOMAIN dbv \cup {ver + 1} |->
     IF w = ver + 1
     THEN MergeLoop(0, Len(documents), documents, dbv[ver].metaData, <<>>, <<>>, EmptyBucket)
     ELSE dbv[w]]

\* a merge that first puts each output where the document of its identifier stood
MergeIntoById(dbv, ver, documents) ==
  LET metaData == dbv[ver].metaData
      byId == [k \in 1..Len(documents) |->
                 IF k <= Len(dbv[ver].documents)
                      /\ "id" \in DOMAIN dbv[ver].documents[k]
                      /\ \E j \in 1..Len(documents) : documents[j].id = dbv[ver].documents[k].id
                 THEN documents[CHOOSE j \in 1..Len(documents) :
                                  documents[j].id = dbv[ver].documents[k].id]
                 ELSE documents[k]]
      nextVersionDocuments == IF ver + 1 \in DOMAIN dbv THEN dbv[ver + 1] ELSE EmptyBucket
      documentCount == Len(byId) + Len(nextVersionDocuments.documents)
      merged == MergeLoop(0, documentCount, byId, metaData,
                          nextVersionDocuments.documents, nextVersionDocuments.metaData, EmptyBucket)
  IN [w \in DOMAIN dbv \cup {ver + 1} |-> IF w = ver + 1 THEN merged ELSE dbv[w]]

\* updateDocuments.ts lines 75-103: merge the transformed bucket into the next one
MergeInto(dbv, ver, documents) ==
  LET metaData == dbv[ver].metaData
      nextVersionDocuments == IF ver + 1 \in DOMAIN dbv THEN dbv[ver + 1] ELSE EmptyBucket
      documentCount == Len(documents) + Len(nextVersionDocuments.documents)
      merged == MergeLoop(0, documentCount, documents, metaData,
                          nextVersionDocuments.documents, nextVersionDocuments.metaData, EmptyBucket)
  IN [w \in DOMAIN dbv \cup {ver + 1} |-> IF w = ver + 1 THEN merged ELSE dbv[w]]

\* ------------------------------------------------------ nested schemas
\* The driver loop of a schema whose transforms all honour their contract.
RECURSIVE DriveFrom(_, _, _)
DriveFrom(c, dbv, ver) ==
  IF ver >= c.schemaVersion THEN dbv
  ELSE DriveFrom(c,
         MergeInto(dbv, ver,
           TransformOutput(c.revisions[ver + 1], ver, dbv[ver].documents, [type |-> "ok", at |-> 0])),
         ver + 1)

\* this.embeddedDocumentSchemas[name](list): updatedDocuments bound to the
\* context of an 'embedded' schema and called with an array and nothing else
EmbeddedSchemaEnforcer(list) ==
  IF Len(list) = 0 THEN <<>>
  ELSE LET c == EmbeddedContext
           dbv == TransformInput(c, list, <<>>).documentsByVersion
       IN DriveFrom(c, dbv, Min(DOMAIN dbv))[c.schemaVersion].documents

\* ------------------------------------------------------ persistChangedDocuments
DocumentAt(documents, k) == IF k <= Len(documents) THEN documents[k] ELSE UndefinedDocument

\* an $unset that forgets the check against the embedded schemas
UnsetFieldsOfAnyName(c, document, initialFields) ==
  {fieldName \in initialFields.keys : document.f[fieldName].k = "undefined"}

\* the fields persistChangedDocuments.ts lines 20-29 collect into $unset
UnsetFields(c, document, initialFields) ==
  {fieldName \in initialFields.keys :
     document.f[fieldName].k = "undefined" /\ fieldName \notin c.embeddedDocumentSchemas}

\* a writer that replaces whenever the projection leaves no embedded field
WriteOperationByProjection(c, document, meta) ==
  IF ProjectedEmbeddedDocumentNames(c, projection) # {}
  THEN [ type |-> "updateOne", filter |-> document.id, document |-> document,
         hasUnset |-> UnsetFields(c, document, meta.initialFields) # {},
         unset |-> UnsetFields(c, document, meta.initialFields) ]
  ELSE [ type |-> "replaceOne", filter |-> document.id, document |-> document,
         hasUnset |-> FALSE, unset |-> {} ]

\* persistChangedDocuments.ts lines 12-58: the operation for one flagged document
WriteOperation(c, document, meta) ==
  IF c.hasEmbeddedDocuments
  THEN [ type |-> "updateOne", filter |-> document.id, document |-> document,
         hasUnset |-> UnsetFields(c, document, meta.initialFields) # {},
         unset |-> UnsetFields(c, document, meta.initialFields) ]
  ELSE [ type |-> "replaceOne", filter |-> document.id, document |-> document,
         hasUnset |-> FALSE, unset |-> {} ]

\* a reduce that writes every document, flagged or not
BulkWriteOperationsUnfiltered(c, documents, metaData, k) ==
  [j \in 1..(Len(metaData) + 1 - k) |->
     WriteOperation(c, DocumentAt(documents, j + k - 1), metaData[j + k - 1])]

\* persistChangedDocuments.ts lines 11-58: metaData.reduce(...) from entry k on
RECURSIVE BulkWriteOperationsFrom(_, _, _, _)
BulkWriteOperationsFrom(c, documents, metaData, k) ==
  IF k > Len(metaData) THEN <<>>
  ELSE IF metaData[k].willBeUpdated
    THEN <<WriteOperation(c, DocumentAt(documents, k), metaData[k])>>
           \o BulkWriteOperationsFrom(c, documents, metaData, k + 1)
    ELSE BulkWriteOperationsFrom(c, documents, metaData, k + 1)

BulkWriteOperations(c, documents, metaData) == BulkWriteOperationsFrom(c, documents, metaData, 1)

\* reading _id or a field of an undefined / null document throws a TypeError,
\* as does initialFields.reduce on a missing snapshot
PersistThrows(c, documents, metaData) ==
  \E k \in 1..Len(metaData) :
    /\ metaData[k].willBeUpdated
    /\ \/ DocumentAt(documents, k).k \in {"undefined", "null"}
       \/ c.hasEmbeddedDocuments /\ ~metaData[k].initialFields.defined

\* ------------------------------------------------------ initial states
Kinds == {"update", "updateMany"}

\* revision chains of up to maxLen transforms: the even revisions of one
\* kind and the odd ones of one kind, all with the same effect on the fields
RevisionChains(maxLen, kindPairs, effects) ==
  UNION {{[i \in 1..n |-> [kind |-> kinds[1 + (i % 2)], effect |-> effect]] :
            kinds \in kindPairs, effect \in effects} : n \in 0..maxLen}

MixedKinds == Kinds \X Kinds
UniformKinds == {<<k, k>> : k \in Kinds}

EmbeddedValues == {Undefined} \cup {EmbeddedDoc(v) : v \in 0..EmbeddedSchemaVersion}

\* the field maps an input document can have: a plain field, and under each
\* registered embedded name nothing or an embedded document
FieldMaps(c) ==
  {f \in [AllFields -> {Undefined, PlainValue} \cup EmbeddedValues] :
     /\ f["a"] = PlainValue
     /\ \A n \in EmbeddedNames :
          IF n \in c.embeddedDocumentSchemas
          THEN f[n] \in EmbeddedValues ELSE f[n] = Undefined}

\* the documents an input can hold: version tags in 0..schemaVersion
Documents(c) ==
  {[k |-> "doc", id |-> 0, v |-> v, hist |-> <<>>, f |-> f] :
     v \in 0..c.schemaVersion, f \in FieldMaps(c)}

\* what may stand at a position of an input array, and what a single input may be
ArrayElements(c) == {UndefinedDocument} \cup Documents(c)
SingleInputs(c) == {FalsyDocument(k) : k \in FalsyKinds} \cup Documents(c)

\* identifiers are unique: the document at position i has _id = i
WithIds(s) == [i \in 1..Len(s) |-> IF Truthy(s[i]) THEN [s[i] EXCEPT !.id = i] ELSE s[i]]

\* arrays of up to maxLen elements, and single values, given directly or (the
\* single values) as a promise that is still pending
Inputs(c, maxLen) ==
  {[pending |-> FALSE, array |-> TRUE, value |-> WithIds(s)] :
     s \in UNION {[1..n -> ArrayElements(c)] : n \in 0..maxLen}}
  \cup
  {[pending |-> p, array |-> FALSE, value |-> WithIds(<<e>>)] :
     p \in BOOLEAN, e \in SingleInputs(c)}

PerDocument == {<<"update", "update">>}

\* the schemas under test: plain schemas and 'embedded' schemas, schemas with
\* one embedded field (shorter chains, whose per-document transforms may drop
\* or write fields) and schemas with two embedded fields and no revision yet
PlainSchemas ==
  {CreateSchema(r, FALSE, {}) : r \in RevisionChains(MaxRevisions, MixedKinds, {"keep"})}
    \cup {CreateSchema(r, TRUE, {}) : r \in RevisionChains(MaxRevisions, UniformKinds, {"keep"})}
OneFieldSchemas ==
  {CreateSchema(r, FALSE, {"e"}) :
     r \in RevisionChains(MaxRevisions - 1, UniformKinds, {"keep"})
              \cup RevisionChains(MaxRevisions - 1, PerDocument, {"drop", "setE"})}
TwoFieldSchemas == {CreateSchema(<<>>, FALSE, {"e", "f"})}
Schemas == PlainSchemas \cup OneFieldSchemas \cup TwoFieldSchemas

\* the longest array a schema is called with: one shorter with two embedded fields
InputBound(c) == IF Cardinality(c.embeddedDocumentSchemas) > 1 THEN MaxDocs - 1 ELSE MaxDocs

\* the collection and projection arguments: no projection with a collection
\* (plain schemas: also without one) and, with a collection, the exclusion of
\* e, of every embedded field, and a whitelist entry
Arguments(c) ==
  {[collection |-> col, projection |-> <<>>] :
     col \in (IF c.embedded \/ c.hasEmbeddedDocuments THEN {TRUE} ELSE BOOLEAN)}
    \cup {[collection |-> TRUE, projection |-> [n \in S |-> FALSE]] :
            S \in {c.embeddedDocumentSchemas \cap {"e"}, c.embeddedDocumentSchemas}}
    \cup (IF c.embedded THEN {}
          ELSE {[collection |-> TRUE, projection |-> [n \in {"a"} |-> TRUE]]})

Init ==
  /\ ctx \in Schemas
  /\ \E arguments \in Arguments(ctx) :
       /\ collection = arguments.collection
       /\ projection = arguments.projection
  /\ rawInput \in Inputs(ctx, InputBound(ctx))
  /\ pc = "await"
  /\ input = <<>>
  /\ singleDocument = FALSE
  /\ documentsByVersion = <<>>
  /\ embeddedDocuments = <<>>
  /\ updatedEmbeddedDocuments = <<>>
  /\ embeddedPromises = <<>>
  /\ version = 0
  /\ promises = <<>>
  /\ result = <<>>
  /\ calls = <<>>
  /\ embeddedCalls = [n \in EmbeddedNames |-> <<>>]
  /\ bulkWrites = <<>>
  /\ error = "none"
  /\ returned = [shape |-> "none", value |-> <<>>]

\* ------------------------------------------------------ updatedDocuments
Fail(e) == pc' = "failed" /\ error' = e

\* line 19: input = await input
AwaitInput ==
  /\ pc = "await"
  /\ rawInput' = [rawInput EXCEPT !.pending = FALSE]
  /\ pc' = "normalize"
  /\ UNCHANGED <<embeddedPromises, promises,
                 ctx, collection, projection, input, singleDocument, documentsByVersion,
                 embeddedDocuments, updatedEmbeddedDocuments, version, result, calls,
                 embeddedCalls, bulkWrites, error, returned>>

\* lines 21-27 when validateProjection throws
RejectProjection ==
  /\ pc = "normalize"
  /\ ProjectionInvalid(projection)
  /\ singleDocument' = ~rawInput.array
  /\ input' = rawInput.value
  /\ Fail("projection")
  /\ UNCHANGED <<embeddedPromises, promises, ctx, rawInput, collection, projection, documentsByVersion,
                 embeddedDocuments, updatedEmbeddedDocuments, version, result, calls,
                 embeddedCalls, bulkWrites, returned>>

\* an empty-input shortcut taken before the projection is validated
ReturnEmptyUnvalidated ==
  /\ pc = "normalize"
  /\ Len(rawInput.value) = 0
  /\ singleDocument' = ~rawInput.array
  /\ input' = rawInput.value
  /\ returned' = [shape |-> "array", value |-> <<>>]
  /\ pc' = "done"
  /\ UNCHANGED <<embeddedPromises, promises, ctx, rawInput, collection, projection, documentsByVersion,
                 embeddedDocuments, updatedEmbeddedDocuments, version, result, calls,
                 embeddedCalls, bulkWrites, error>>

\* lines 21-31 for an empty array
ReturnEmpty ==
  /\ pc = "normalize"
  /\ ~ProjectionInvalid(projection)
  /\ Len(rawInput.value) = 0
  /\ singleDocument' = ~rawInput.array
  /\ input' = rawInput.value
  /\ returned' = [shape |-> "array", value |-> <<>>]
  /\ pc' = "done"
  /\ UNCHANGED <<embeddedPromises, promises, ctx, rawInput, collection, projection, documentsByVersion,
                 embeddedDocuments, updatedEmbeddedDocuments, version, result, calls,
                 embeddedCalls, bulkWrites, error>>

\* lines 21-31 otherwise
Normalize ==
  /\ pc = "normalize"
  /\ ~ProjectionInvalid(projection)
  /\ Len(rawInput.value) # 0
  /\ singleDocument' = ~rawInput.array
  /\ input' = rawInput.value
  /\ pc' = "bucket"
  /\ UNCHANGED <<embeddedPromises, promises, ctx, rawInput, collection, projection, documentsByVersion,
                 embeddedDocuments, updatedEmbeddedDocuments, version, result, calls,
                 embeddedCalls, bulkWrites, error, returned>>

\* lines 33-37: transformInput.call(this, input, projection)
Bucket ==
  /\ pc = "bucket"
  /\ LET t == TransformInput(ctx, input, projection)
     IN /\ documentsByVersion' = t.documentsByVersion
        /\ embeddedDocuments' = t.embeddedDocuments
  /\ pc' = "embedded"
  /\ UNCHANGED <<embeddedPromises, promises, ctx, rawInput, collection, projection, input, singleDocument,
                 updatedEmbeddedDocuments, version, result, calls,
                 embeddedCalls, bulkWrites, error, returned>>

\* the nested schemas line 42 invokes
InvokedNames == IF ctx.embedded THEN {} ELSE ProjectedEmbeddedDocumentNames(ctx, projection)

LogEmbeddedCalls ==
  embeddedCalls' = [n \in EmbeddedNames |->
                      IF n \in InvokedNames
                      THEN Append(embeddedCalls[n], embeddedDocuments[n])
                      ELSE embeddedCalls[n]]

\* a promise: pending, or fulfilled with a value
Pending(nothing) == [state |-> "pending", value |-> nothing]
Fulfilled(value) == [state |-> "fulfilled", value |-> value]
PendingIn(ps) == {k \in DOMAIN ps : ps[k].state = "pending"}

\* lines 39-44: projectedEmbeddedDocumentNames.map(...) calls every nested
\* schema; the promises go to Promise.all
InvokeEmbeddedSchemas ==
  /\ pc = "embedded"
  /\ LogEmbeddedCalls
  /\ embeddedPromises' = [n \in InvokedNames |-> Pending(<<>>)]
  /\ pc' = "nested"
  /\ UNCHANGED <<ctx, rawInput, collection, projection, input, singleDocument,
                 documentsByVersion, embeddedDocuments, updatedEmbeddedDocuments,
                 version, promises, result, calls, bulkWrites, error, returned>>

\* a resolution that writes the result into the parents at once
ResolveEmbeddedSchemaSplicing ==
  /\ pc = "nested"
  /\ \E n \in PendingIn(embeddedPromises) :
       LET value == EmbeddedSchemaEnforcer(embeddedDocuments[n])
       IN /\ embeddedPromises' = [embeddedPromises EXCEPT ![n] = Fulfilled(value)]
          /\ documentsByVersion' =
               [w \in DOMAIN documentsByVersion |->
                  [documentsByVersion[w] EXCEPT !.documents =
                     [j \in 1..Len(@) |->
                        IF Truthy(@[j])
                        THEN [@[j] EXCEPT !.f[n] = value[documentsByVersion[w].metaData[j].index + 1]]
                        ELSE @[j]]]]
  /\ UNCHANGED <<ctx, rawInput, collection, projection, pc, input, singleDocument,
                 embeddedDocuments, updatedEmbeddedDocuments,
                 version, promises, result, calls, embeddedCalls, bulkWrites,
                 error, returned>>

\* one of the nested schemas resolves, in any order
ResolveEmbeddedSchema ==
  /\ pc = "nested"
  /\ \E n \in PendingIn(embeddedPromises) :
       embeddedPromises' =
         [embeddedPromises EXCEPT ![n] = Fulfilled(EmbeddedSchemaEnforcer(embeddedDocuments[n]))]
  /\ UNCHANGED <<ctx, rawInput, collection, projection, pc, input, singleDocument,
                 documentsByVersion, embeddedDocuments, updatedEmbeddedDocuments,
                 version, promises, result, calls, embeddedCalls, bulkWrites,
                 error, returned>>

\* lines 42-44 when one of the nested schemas rejects: Promise.all rejects
EmbeddedSchemaRejects ==
  /\ pc = "nested"
  /\ \E n \in PendingIn(embeddedPromises) :
       embeddedPromises' = [embeddedPromises EXCEPT ![n].state = "rejected"]
  /\ Fail("nested")
  /\ UNCHANGED <<ctx, rawInput, collection, projection, input, singleDocument,
                 documentsByVersion, embeddedDocuments, updatedEmbeddedDocuments,
                 version, promises, result, calls, embeddedCalls, bulkWrites, returned>>

\* a loop that starts as soon as one of the nested schemas has settled
AwaitEmbeddedSchemasEarly ==
  /\ pc = "nested"
  /\ \E n \in DOMAIN embeddedPromises : embeddedPromises[n].state = "fulfilled"
  /\ updatedEmbeddedDocuments' = [n \in DOMAIN embeddedPromises |-> embeddedPromises[n].value]
  /\ version' = Min(DOMAIN documentsByVersion)
  /\ pc' = "migrate"
  /\ UNCHANGED <<ctx, rawInput, collection, projection, input, singleDocument,
                 documentsByVersion, embeddedDocuments, embeddedPromises, promises,
                 result, calls, embeddedCalls, bulkWrites, error, returned>>

\* a loop that starts at revision 0 whatever the input holds
LoopStartAtZero(dbv) == 0

\* line 58: let version = Math.min(...Object.keys(documentsByVersion))
LoopStart(dbv) == Min(DOMAIN dbv)

\* lines 42-58 once Promise.all resolved: the reduce fills
\* updatedEmbeddedDocuments and the loop variable is initialised
AwaitEmbeddedSchemas ==
  /\ pc = "nested"
  /\ PendingIn(embeddedPromises) = {}
  /\ updatedEmbeddedDocuments' = [n \in DOMAIN embeddedPromises |-> embeddedPromises[n].value]
  /\ version' = LoopStart(documentsByVersion)
  /\ pc' = "migrate"
  /\ UNCHANGED <<ctx, rawInput, collection, projection, input, singleDocument,
                 documentsByVersion, embeddedDocuments, embeddedPromises, promises,
                 result, calls, embeddedCalls, bulkWrites, error, returned>>

\* the invocations lines 63-67 make on the bucket at `version`
Invocations(revision, documents, output) ==
  IF revision.kind = "updateMany"
  THEN <<[rev |-> version, kind |-> "updateMany", args |-> documents, out |-> output]>>
  ELSE [k \in 1..Len(documents) |->
          [rev |-> version, kind |-> "update", args |-> <<documents[k]>>,
           out |-> IF k <= Len(output) THEN <<output[k]>> ELSE <<>>]]

\* the ways the batch transform of a revision can answer
Outcomes(revision, documents) ==
  {[type |-> "ok", at |-> 0], [type |-> "reversed", at |-> 0]}
    \cup {[type |-> "mismatch", at |-> at] : at \in {1, Len(documents)} \cap (1..Len(documents))}

InLoop == pc = "migrate" /\ version < ctx.schemaVersion

\* line 59
RevisionAt(ver) == ctx.revisions[ver + 1]

\* a promise settled by putting the value into the first slot still open
FulfilInArrivalOrder(ps, k, value) ==
  [ps EXCEPT ![CHOOSE j \in PendingIn(ps) : \A i \in PendingIn(ps) : j <= i] = Fulfilled(value)]

\* the promise of update(documents[k]) resolves with value
Fulfil(ps, k, value) == [ps EXCEPT ![k] = Fulfilled(value)]

\* Promise.all: the values in the order of the promises
PromiseAll(ps) == [k \in 1..Len(ps) |-> ps[k].value]

\* what update(documents[k]) can resolve with: the revised document or, at
\* the ends of the bucket, the document with its old _v
UpdateAnswers(documents, k) ==
  {Revise(RevisionAt(version), version, documents[k])}
    \cup (IF k \in {1, Len(documents)} THEN {documents[k]} ELSE {})

\* line 66: documents.map(document => revision.update(document)) starts one
\* call per document of the bucket
StartUpdates ==
  /\ InLoop
  /\ version \in DOMAIN documentsByVersion
  /\ RevisionAt(version).kind = "update"
  /\ LET documents == documentsByVersion[version].documents
     IN /\ promises' = [k \in 1..Len(documents) |-> Pending(UndefinedDocument)]
        /\ calls' = calls \o Invocations(RevisionAt(version), documents, <<>>)
  /\ pc' = "settle"
  /\ UNCHANGED <<ctx, rawInput, collection, projection, input, singleDocument,
                 documentsByVersion, embeddedDocuments, updatedEmbeddedDocuments,
                 embeddedPromises, version, result, embeddedCalls, bulkWrites,
                 error, returned>>

\* one of the update calls resolves, in any order
ResolveUpdate ==
  /\ pc = "settle"
  /\ \E k \in PendingIn(promises) :
       \E value \in UpdateAnswers(documentsByVersion[version].documents, k) :
         promises' = Fulfil(promises, k, value)
  /\ UNCHANGED <<ctx, rawInput, collection, projection, pc, input, singleDocument,
                 documentsByVersion, embeddedDocuments, updatedEmbeddedDocuments,
                 embeddedPromises, version, result, calls, embeddedCalls, bulkWrites,
                 error, returned>>

\* one of the update calls rejects: Promise.all rejects
UpdateRejects ==
  /\ pc = "settle"
  /\ \E k \in PendingIn(promises) :
       promises' = [promises EXCEPT ![k].state = "rejected"]
  /\ Fail("transform")
  /\ UNCHANGED <<ctx, rawInput, collection, projection, input, singleDocument,
                 documentsByVersion, embeddedDocuments, updatedEmbeddedDocuments,
                 embeddedPromises, version, result, calls, embeddedCalls, bulkWrites,
                 returned>>

\* TRUE iff line 64 or line 66 can assign `documents`
Answering ==
  /\ version < ctx.schemaVersion
  /\ version \in DOMAIN documentsByVersion
  /\ IF RevisionAt(version).kind = "updateMany"
     THEN pc = "migrate"
     ELSE pc = "settle" /\ PendingIn(promises) = {}

\* the values line 64 or line 66 can assign to `documents`
Answers ==
  LET documents == documentsByVersion[version].documents
  IN IF RevisionAt(version).kind = "updateMany"
     THEN {TransformOutput(RevisionAt(version), version, documents, outcome) :
             outcome \in Outcomes(RevisionAt(version), documents)}
     ELSE {PromiseAll(promises)}

\* the invocations made so far, with the answer to the latest ones filled in
Answered(output) ==
  LET documents == documentsByVersion[version].documents
  IN IF RevisionAt(version).kind = "updateMany"
     THEN calls \o Invocations(RevisionAt(version), documents, output)
     ELSE SubSeq(calls, 1, Len(calls) - Len(documents))
            \o Invocations(RevisionAt(version), documents, output)

\* an iteration that writes the documents of the last revision inside the loop
ApplyRevisionWriting ==
  /\ Answering
  /\ \E output \in Answers :
       /\ VersionsValid(output, version)
       /\ calls' = Answered(output)
       /\ documentsByVersion' = MergeInto(documentsByVersion, version, output)
       /\ bulkWrites' =
            IF version = ctx.schemaVersion - 1 /\ collection
            THEN Append(bulkWrites,
                        [k \in 1..Len(output) |->
                           [ type |-> "replaceOne", filter |-> output[k].id,
                             document |-> output[k], hasUnset |-> FALSE, unset |-> {} ]])
            ELSE bulkWrites
  /\ version' = version + 1
  /\ promises' = <<>>
  /\ pc' = "migrate"
  /\ UNCHANGED <<ctx, rawInput, collection, projection, input, singleDocument,
                 embeddedDocuments, updatedEmbeddedDocuments, embeddedPromises, result,
                 embeddedCalls, error, returned>>

\* lines 58-103, one iteration whose transform output passes the version check
ApplyRevision ==
  /\ Answering
  /\ \E output \in Answers :
       /\ VersionsValid(output, version)
       /\ calls' = Answered(output)
       /\ documentsByVersion' = MergeInto(documentsByVersion, version, output)
  /\ version' = version + 1
  /\ promises' = <<>>
  /\ pc' = "migrate"
  /\ UNCHANGED <<ctx, rawInput, collection, projection, input, singleDocument,
                 embeddedDocuments, updatedEmbeddedDocuments, embeddedPromises, result,
                 embeddedCalls, bulkWrites, error, returned>>

\* lines 58-73, an iteration whose transform output fails the version check
VersionMismatch ==
  /\ Answering
  /\ \E output \in Answers :
       /\ ~VersionsValid(output, version)
       /\ calls' = Answered(output)
  /\ Fail("mismatch")
  /\ UNCHANGED <<ctx, rawInput, collection, projection, input, singleDocument,
                 documentsByVersion, embeddedDocuments, updatedEmbeddedDocuments,
                 embeddedPromises, version, promises, result, embeddedCalls,
                 bulkWrites, returned>>

\* lines 58-64, an iteration that throws: the batch transform throws or
\* rejects, or there is no bucket at `version` to destructure (line 60)
TransformThrows ==
  /\ InLoop
  /\ IF version \in DOMAIN documentsByVersion
     THEN /\ RevisionAt(version).kind = "updateMany"
          /\ calls' = calls \o Invocations(RevisionAt(version),
                                           documentsByVersion[version].documents, <<>>)
          /\ Fail("transform")
     ELSE /\ calls' = calls
          /\ Fail("type")
  /\ UNCHANGED <<ctx, rawInput, collection, projection, input, singleDocument,
                 documentsByVersion, embeddedDocuments, updatedEmbeddedDocuments,
                 embeddedPromises, version, promises, result, embeddedCalls,
                 bulkWrites, returned>>

\* a splice that keeps what the document holds where the nested result is undefined
SplicedDocumentIfDefined(d, j, names) ==
  IF ~Truthy(d) THEN d
  ELSE [d EXCEPT !.f = [n \in AllFields |->
          IF n \in names /\ j <= Len(updatedEmbeddedDocuments[n])
                        /\ updatedEmbeddedDocuments[n][j].k # "undefined"
          THEN updatedEmbeddedDocuments[n][j]
          ELSE d.f[n]]]

\* a splice that takes the first element of every nested result
SplicedDocumentFirst(d, j, names) ==
  IF ~Truthy(d) THEN d
  ELSE [d EXCEPT !.f = [n \in AllFields |->
          IF n \in names
          THEN (IF 1 <= Len(updatedEmbeddedDocuments[n])
                THEN updatedEmbeddedDocuments[n][1] ELSE Undefined)
          ELSE d.f[n]]]

\* result[index][name] = updatedEmbeddedDocuments[name][index] (line 115)
SplicedDocument(d, j, names) ==
  IF ~Truthy(d) THEN d
  ELSE [d EXCEPT !.f = [n \in AllFields |->
          IF n \in names
          THEN (IF j <= Len(updatedEmbeddedDocuments[n])
                THEN updatedEmbeddedDocuments[n][j] ELSE Undefined)
          ELSE d.f[n]]]

\* lines 106-118, after the loop: the embedded results are written into the
\* documents of the final bucket, which `result` aliases
SpliceEmbedded ==
  /\ pc = "migrate"
  /\ version >= ctx.schemaVersion
  /\ IF ctx.schemaVersion \notin DOMAIN documentsByVersion
     THEN /\ Fail("type")
          /\ UNCHANGED <<documentsByVersion, result>>
     ELSE LET final == documentsByVersion[ctx.schemaVersion].documents
              spliced == [j \in 1..Len(final) |-> SplicedDocument(final[j], j, InvokedNames)]
          IN /\ result' = spliced
             /\ documentsByVersion' =
                  [documentsByVersion EXCEPT ![ctx.schemaVersion].documents = spliced]
             /\ pc' = "persist"
             /\ UNCHANGED error
  /\ UNCHANGED <<embeddedPromises, promises, ctx, rawInput, collection, projection, input, singleDocument,
                 embeddedDocuments, updatedEmbeddedDocuments, version, calls,
                 embeddedCalls, bulkWrites, returned>>

\* a guard that forgets the schema may be 'embedded'
PersistingAnySchema == pc = "persist" /\ collection

Persisting == pc = "persist" /\ collection /\ ~ctx.embedded

FinalBucket == documentsByVersion[ctx.schemaVersion]

\* lines 120-122 when no write is attempted: no collection, an 'embedded'
\* schema, or no operation to write (persistChangedDocuments line 60)
SkipWrite ==
  /\ pc = "persist"
  /\ \/ ~(collection /\ ~ctx.embedded)
     \/ /\ ~PersistThrows(ctx, FinalBucket.documents, FinalBucket.metaData)
        /\ Len(BulkWriteOperations(ctx, FinalBucket.documents, FinalBucket.metaData)) = 0
  /\ pc' = "return"
  /\ UNCHANGED <<embeddedPromises, promises, ctx, rawInput, collection, projection, input, singleDocument,
                 documentsByVersion, embeddedDocuments, updatedEmbeddedDocuments,
                 version, result, calls, embeddedCalls, bulkWrites, error, returned>>

\* persistChangedDocuments: collection.bulkWrite(bulkWriteOperations) resolves
BulkWrite ==
  /\ Persisting
  /\ ~PersistThrows(ctx, FinalBucket.documents, FinalBucket.metaData)
  /\ Len(BulkWriteOperations(ctx, FinalBucket.documents, FinalBucket.metaData)) # 0
  /\ bulkWrites' = Append(bulkWrites,
                          BulkWriteOperations(ctx, FinalBucket.documents, FinalBucket.metaData))
  /\ pc' = "return"
  /\ UNCHANGED <<embeddedPromises, promises, ctx, rawInput, collection, projection, input, singleDocument,
                 documentsByVersion, embeddedDocuments, updatedEmbeddedDocuments,
                 version, result, calls, embeddedCalls, error, returned>>

\* persistChangedDocuments rejects: the reduce throws on a flagged entry
\* without a document, or collection.bulkWrite(bulkWriteOperations) rejects
BulkWriteRejects ==
  /\ Persisting
  /\ IF PersistThrows(ctx, FinalBucket.documents, FinalBucket.metaData)
     THEN /\ bulkWrites' = bulkWrites
          /\ Fail("type")
     ELSE /\ Len(BulkWriteOperations(ctx, FinalBucket.documents, FinalBucket.metaData)) # 0
          /\ bulkWrites' = Append(bulkWrites,
                 BulkWriteOperations(ctx, FinalBucket.documents, FinalBucket.metaData))
          /\ Fail("store")
  /\ UNCHANGED <<embeddedPromises, promises, ctx, rawInput, collection, projection, input, singleDocument,
                 documentsByVersion, embeddedDocuments, updatedEmbeddedDocuments,
                 version, result, calls, embeddedCalls, returned>>

\* a return that forgets to unwrap a single document
ReturnArrayAlways ==
  /\ pc = "return"
  /\ returned' = [shape |-> "array", value |-> result]
  /\ pc' = "done"
  /\ UNCHANGED <<embeddedPromises, promises, ctx, rawInput, collection, projection, input, singleDocument,
                 documentsByVersion, embeddedDocuments, updatedEmbeddedDocuments,
                 version, result, calls, embeddedCalls, bulkWrites, error>>

\* lines 124-128
Return ==
  /\ pc = "return"
  /\ returned' = IF singleDocument
                 THEN [shape |-> "single", value |-> <<DocumentAt(result, 1)>>]
                 ELSE [shape |-> "array", value |-> result]
  /\ pc' = "done"
  /\ UNCHANGED <<embeddedPromises, promises, ctx, rawInput, collection, projection, input, singleDocument,
                 documentsByVersion, embeddedDocuments, updatedEmbeddedDocuments,
                 version, result, calls, embeddedCalls, bulkWrites, error>>

Next ==
  \/ AwaitInput
  \/ RejectProjection
  \/ ReturnEmpty
  \/ Normalize
  \/ Bucket
  \/ InvokeEmbeddedSchemas
  \/ ResolveEmbeddedSchema
  \/ EmbeddedSchemaRejects
  \/ AwaitEmbeddedSchemas
  \/ StartUpdates
  \/ ResolveUpdate
  \/ UpdateRejects
  \/ ApplyRevision
  \/ VersionMismatch
  \/ TransformThrows
  \/ SpliceEmbedded
  \/ SkipWrite
  \/ BulkWrite
  \/ BulkWriteRejects
  \/ Return

Spec == Init /\ [][Next]_vars

\* ------------------------------------------------------ newer documents
\* documents tagged with a version above the last revision of the schema
DocumentsAbove(c) ==
  {[k |-> "doc", id |-> 0, v |-> c.schemaVersion + 1, hist |-> <<>>, f |-> f] :
     f \in FieldMaps(c)}

\* inputs that may hold such documents next to the others
InputsAbove(c, maxLen) ==
  {[pending |-> FALSE, array |-> TRUE, value |-> WithIds(s)] :
     s \in UNION {[1..n -> ArrayElements(c) \cup DocumentsAbove(c)] : n \in 0..maxLen}}
  \cup
  {[pending |-> FALSE, array |-> FALSE, value |-> WithIds(<<e>>)] : e \in DocumentsAbove(c)}

InitAbove ==
  /\ ctx \in Schemas
  /\ \E arguments \in Arguments(ctx) :
       /\ collection = arguments.collection
       /\ projection = arguments.projection
  /\ rawInput \in InputsAbove(ctx, InputBound(ctx))
  /\ pc = "await"
  /\ input = <<>>
  /\ singleDocument = FALSE
  /\ documentsByVersion = <<>>
  /\ embeddedDocuments = <<>>
  /\ updatedEmbeddedDocuments = <<>>
  /\ embeddedPromises = <<>>
  /\ version = 0
  /\ promises = <<>>
  /\ result = <<>>
  /\ calls = <<>>
  /\ embeddedCalls = [n \in EmbeddedNames |-> <<>>]
  /\ bulkWrites = <<>>
  /\ error = "none"
  /\ returned = [shape |-> "none", value |-> <<>>]

\* the same call, over inputs that may hold documents above schemaVersion
SpecAbove == InitAbove /\ [][Next]_vars

\* schemas whose batch transforms return fewer or more documents than they were passed
MiscountingSchemas ==
  {CreateSchema(r, FALSE, {}) :
     r \in RevisionChains(MaxRevisions, {<<"updateMany", "updateMany">>}, {"dropLast", "extra"})}

InitMiscount ==
  /\ ctx \in Schemas \cup MiscountingSchemas
  /\ \E arguments \in Arguments(ctx) :
       /\ collection = arguments.collection
       /\ projection = arguments.projection
  /\ rawInput \in Inputs(ctx, InputBound(ctx))
  /\ pc = "await"
  /\ input = <<>>
  /\ singleDocument = FALSE
  /\ documentsByVersion = <<>>
  /\ embeddedDocuments = <<>>
  /\ updatedEmbeddedDocuments = <<>>
  /\ embeddedPromises = <<>>
  /\ version = 0
  /\ promises = <<>>
  /\ result = <<>>
  /\ calls = <<>>
  /\ embeddedCalls = [n \in EmbeddedNames |-> <<>>]
  /\ bulkWrites = <<>>
  /\ error = "none"
  /\ returned = [shape |-> "none", value |-> <<>>]

\* the same call, also over batch transforms that do not keep the number of documents
SpecMiscount == InitMiscount /\ [][Next]_vars

\* the steps of the driver loop (lines 58-104) and of the transforms it awaits
LoopStep ==
  \/ StartUpdates
  \/ ResolveUpdate
  \/ UpdateRejects
  \/ ApplyRevision
  \/ VersionMismatch
  \/ TransformThrows

\* every transform invocation settles and the loop goes on once it has
FairSpec == Init /\ [][Next]_vars /\ WF_vars(LoopStep)

\* ====================================================== properties
Positions == 1..Len(input)
Bucketed == DOMAIN documentsByVersion # {}
CallIndices == 1..Len(calls)

\* every transform invocation so far answered with one output per input, in
\* the order of its inputs
SameOrder ==
  \A c \in CallIndices :
    /\ Len(calls[c].out) = Len(calls[c].args)
    /\ \A k \in 1..Len(calls[c].args) : calls[c].out[k].id = calls[c].args[k].id

\* document d after the revisions d.v, ..., target - 1 were applied in order
RECURSIVE MigratedTo(_, _, _)
MigratedTo(c, d, target) ==
  IF ~Truthy(d) \/ d.v >= target THEN d
  ELSE MigratedTo(c, Revise(c.revisions[d.v + 1], d.v, d), target)

Migrated(c, d) == MigratedTo(c, d, c.schemaVersion)

\* the migrated form of input element i: its revision chain applied, and each
\* invoked embedded field replaced by what its schema makes of the input's value
MigratedForm(i) ==
  LET m == Migrated(ctx, input[i])
  IN IF ~Truthy(m) THEN m
     ELSE [m EXCEPT !.f = [n \in AllFields |->
             IF n \in InvokedNames
             THEN EmbeddedSchemaEnforcer(<<FieldOf(input[i], n)>>)[1]
             ELSE m.f[n]]]

\* C1: for a non-empty array input and transforms that answer one output per
\* input in the same order, the call returns an array of the same length whose
\* position i holds the migrated form of input element i.
C1_OrderPreserved ==
  (pc = "done" /\ rawInput.array /\ Len(input) > 0 /\ SameOrder) =>
     /\ returned.shape = "array"
     /\ Len(returned.value) = Len(input)
     /\ \A i \in Positions : returned.value[i] = MigratedForm(i)

C1_Witness ==
  /\ pc = "done" /\ rawInput.array /\ SameOrder
  /\ ctx.schemaVersion = 2 /\ Len(input) = 2
  /\ Truthy(input[1]) /\ input[1].v = 1
  /\ Truthy(input[2]) /\ input[2].v = 0
  /\ returned.value[1].hist = <<1>> /\ returned.value[2].hist = <<0, 1>>

\* C2: a document entering at v < schemaVersion goes through the revisions
\* v, ..., schemaVersion - 1 in increasing order, each revision receiving the
\* value the previous one returned, and the chain's result (tagged
\* schemaVersion) is what the final bucket holds and what the call returns.
C2_ChainApplied ==
  \A i \in Positions :
    (Truthy(input[i]) /\ input[i].v < ctx.schemaVersion) =>
      /\ (pc = "migrate" /\ version >= ctx.schemaVersion) =>
           /\ ctx.schemaVersion \in DOMAIN documentsByVersion
           /\ \E j \in 1..Len(FinalBucket.documents) :
                FinalBucket.documents[j] = Migrated(ctx, input[i])
           /\ \A r \in input[i].v..(ctx.schemaVersion - 1) :
                \E c \in CallIndices :
                  /\ calls[c].rev = r
                  /\ \E k \in 1..Len(calls[c].args) :
                       calls[c].args[k] = MigratedTo(ctx, input[i], r)
                  /\ \E k \in 1..Len(calls[c].out) :
                       calls[c].out[k] = MigratedTo(ctx, input[i], r + 1)
      /\ pc = "done" =>
           \E j \in 1..Len(returned.value) :
             /\ returned.value[j].id = input[i].id
             /\ returned.value[j].v = ctx.schemaVersion
             /\ returned.value[j].hist = Migrated(ctx, input[i]).hist
             /\ \A n \in AllFields \ InvokedNames :
                  returned.value[j].f[n] = Migrated(ctx, input[i]).f[n]

C2_Witness ==
  /\ pc = "done" /\ ctx.schemaVersion = 2
  /\ \E i \in Positions :
       /\ Truthy(input[i]) /\ input[i].v = 0
       /\ \E j \in 1..Len(returned.value) :
            returned.value[j].id = input[i].id /\ returned.value[j].hist = <<0, 1>>

\* C3: when the transform at index v answers with a document whose _v is not
\* v + 1 the call rejects with the version-mismatch error, the bucket at v + 1
\* is still as it was bucketed, no revision above v was invoked and nothing
\* was written.
C3_MismatchAborts ==
  \A c \in CallIndices :
    (\E k \in 1..Len(calls[c].out) : calls[c].out[k].v # calls[c].rev + 1) =>
      /\ pc = "failed" /\ error = "mismatch"
      /\ bulkWrites = <<>>
      /\ version = calls[c].rev
      /\ \A c2 \in CallIndices : calls[c2].rev <= calls[c].rev
      /\ LET bucketed == TransformInput(ctx, input, projection).documentsByVersion
             next == calls[c].rev + 1
         IN /\ (next \in DOMAIN documentsByVersion) = (next \in DOMAIN bucketed)
            /\ next \in DOMAIN bucketed => documentsByVersion[next] = bucketed[next]

C3_Witness ==
  /\ pc = "failed" /\ error = "mismatch" /\ collection /\ ~ctx.embedded
  /\ ctx.schemaVersion = 2 /\ version = 0
  /\ 1 \in DOMAIN documentsByVersion
  /\ Len(documentsByVersion[0].documents) >= 1

\* C4: the result has the shape of the input: a single value yields a single
\* value (a falsy one yields itself), an array yields an array, and an empty
\* array yields an empty array with no transform, nested schema or write.
C4_ShapePreserved ==
  /\ pc = "done" =>
       /\ returned.shape = (IF rawInput.array THEN "array" ELSE "single")
       /\ ~rawInput.array =>
            /\ Len(returned.value) = 1
            /\ Truthy(returned.value[1]) = Truthy(rawInput.value[1])
            /\ ~Truthy(rawInput.value[1]) => returned.value[1] = rawInput.value[1]
       /\ rawInput.array => Len(returned.value) = Len(rawInput.value)
  /\ (rawInput.array /\ Len(rawInput.value) = 0) =>
       /\ calls = <<>> /\ bulkWrites = <<>>
       /\ \A n \in EmbeddedNames : embeddedCalls[n] = <<>>
       /\ pc \in {"await", "normalize", "done", "failed"}
       /\ pc = "failed" => error = "projection"

C4_Witness ==
  /\ pc = "done" /\ rawInput.array /\ Len(rawInput.value) = 0
  /\ returned = [shape |-> "array", value |-> <<>>]
  /\ collection /\ ctx.hasEmbeddedDocuments /\ ctx.schemaVersion > 0

\* C5: a falsy input element is bucketed at schemaVersion with its write flag
\* false, is never passed to a transform, gets no embedded field, produces no
\* write operation and is returned as the same falsy value at its position.
C5_FalsyPassThrough ==
  /\ \A c \in CallIndices : \A k \in 1..Len(calls[c].args) : Truthy(calls[c].args[k])
  /\ \A w \in 1..Len(bulkWrites) : \A o \in 1..Len(bulkWrites[w]) :
       Truthy(bulkWrites[w][o].document)
  /\ \A i \in Positions :
       ~Truthy(input[i]) =>
         /\ Bucketed =>
              /\ ctx.schemaVersion \in DOMAIN documentsByVersion
              /\ \E k \in 1..Len(FinalBucket.metaData) :
                   /\ FinalBucket.metaData[k].index = i - 1
                   /\ ~FinalBucket.metaData[k].willBeUpdated
                   /\ FinalBucket.documents[k] = input[i]
              /\ \A w \in DOMAIN documentsByVersion \ {ctx.schemaVersion} :
                   \A k \in 1..Len(documentsByVersion[w].metaData) :
                     documentsByVersion[w].metaData[k].index # i - 1
         /\ pc = "done" => returned.value[i] = input[i]

C5_Witness ==
  /\ pc = "done" /\ collection /\ bulkWrites # <<>>
  /\ InvokedNames # {} /\ ctx.schemaVersion > 0
  /\ Len(input) >= 2
  /\ Truthy(input[1]) /\ input[1].v = 0
  /\ ~Truthy(input[2]) /\ returned.value[2] = input[2]

\* positions of the input documents that are at version r when revision r runs
AtOrBelow(r) == {i \in Positions : Truthy(input[i]) /\ input[i].v <= r}
CallsOf(r) == {c \in CallIndices : calls[c].rev = r}
ArgumentIds(c) == {calls[c].args[k].id : k \in 1..Len(calls[c].args)}

\* C6: revision r is invoked only if some input document has version <= r <
\* schemaVersion; a batch transform is called once, with exactly the documents
\* then at version r (entered at r or migrated up, never entered above r); a
\* per-document transform is called once for each document of that bucket.
C6_CallsMatchBuckets ==
  /\ \A c \in CallIndices :
       /\ calls[c].rev \in 0..(ctx.schemaVersion - 1)
       /\ AtOrBelow(calls[c].rev) # {}
       /\ ArgumentIds(c) \subseteq AtOrBelow(calls[c].rev)
       /\ \A k \in 1..Len(calls[c].args) : calls[c].args[k].v = calls[c].rev
  /\ \A r \in 0..(ctx.schemaVersion - 1) :
       /\ (CallsOf(r) # {} /\ RevisionAt(r).kind = "updateMany") =>
            /\ Cardinality(CallsOf(r)) = 1
            /\ \A c \in CallsOf(r) :
                 /\ ArgumentIds(c) = AtOrBelow(r)
                 /\ Len(calls[c].args) = Cardinality(AtOrBelow(r))
       /\ (CallsOf(r) # {} /\ RevisionAt(r).kind = "update") =>
            /\ Cardinality(CallsOf(r)) = Cardinality(AtOrBelow(r))
            /\ \A c \in CallsOf(r) : Len(calls[c].args) = 1
            /\ \A i \in AtOrBelow(r) : \E c \in CallsOf(r) : calls[c].args[1].id = i
       /\ (pc = "done" /\ AtOrBelow(r) # {}) => CallsOf(r) # {}

C6_Witness ==
  /\ pc = "done" /\ ctx.schemaVersion = 2 /\ Len(input) = 2
  /\ RevisionAt(0).kind = "updateMany" /\ RevisionAt(1).kind = "updateMany"
  /\ Truthy(input[1]) /\ input[1].v = 1
  /\ Truthy(input[2]) /\ input[2].v = 0
  /\ Len(calls) = 2 /\ Len(calls[1].args) = 1 /\ Len(calls[2].args) = 2
  /\ calls[2].args[1].id = 1 /\ calls[2].args[2].id = 2

\* the input positions whose document is stale: its own version is below
\* schemaVersion, or a registered, not excluded embedded field holds a
\* document below that field's schema version
StalePositions ==
  {i \in Positions :
     /\ Truthy(input[i])
     /\ \/ input[i].v < ctx.schemaVersion
        \/ \E n \in ctx.embeddedDocumentSchemas :
             /\ ~(n \in DOMAIN projection /\ projection[n] = FALSE)
             /\ Truthy(input[i].f[n])
             /\ input[i].f[n].v < EmbeddedSchemaVersion}

WriterRan == pc \in {"return", "done"} \/ (pc = "failed" /\ error = "store")

\* C7: with a collection and a schema that is not 'embedded', a call that
\* reaches the writer makes no bulkWrite call when no document is stale and
\* exactly one otherwise, holding one operation per stale document and none
\* for any other document.
C7_OneBatchedWrite ==
  /\ Len(bulkWrites) <= 1
  /\ (collection /\ ~ctx.embedded /\ WriterRan) =>
       IF StalePositions = {} THEN bulkWrites = <<>>
       ELSE /\ Len(bulkWrites) = 1
            /\ Len(bulkWrites[1]) = Cardinality(StalePositions)
            /\ {bulkWrites[1][o].filter : o \in 1..Len(bulkWrites[1])} = StalePositions

C7_Witness ==
  /\ pc = "done" /\ collection /\ ~ctx.embedded
  /\ Len(input) = 2 /\ StalePositions = {2}
  /\ Truthy(input[1])
  /\ Len(bulkWrites) = 1 /\ Len(bulkWrites[1]) = 1

WrittenIds ==
  UNION {{bulkWrites[w][o].filter : o \in 1..Len(bulkWrites[w])} : w \in 1..Len(bulkWrites)}

\* C8 as stated: every input document whose _v equals schemaVersion is
\* returned unchanged and no write operation is issued for it.
C8_CurrentUntouchedAsStated ==
  pc = "done" =>
    \A i \in Positions :
      (Truthy(input[i]) /\ input[i].v = ctx.schemaVersion) =>
        /\ returned.value[i] = input[i]
        /\ input[i].id \notin WrittenIds

\* C8 (amended): an input document whose _v equals schemaVersion and that has
\* no stale, registered, not excluded embedded field is returned unchanged and
\* no write operation is issued for it.
C8_CurrentUntouched ==
  pc = "done" =>
    \A i \in Positions :
      (Truthy(input[i]) /\ input[i].v = ctx.schemaVersion /\ i \notin StalePositions) =>
        /\ returned.value[i] = input[i]
        /\ input[i].id \notin WrittenIds

C8_Witness ==
  /\ pc = "done" /\ collection /\ InvokedNames = {"e"}
  /\ Len(input) = 2 /\ bulkWrites # <<>>
  /\ Truthy(input[1]) /\ input[1].v = ctx.schemaVersion
  /\ input[1].f["e"] = EmbeddedDoc(EmbeddedSchemaVersion)
  /\ returned.value[1] = input[1] /\ 1 \notin WrittenIds
  /\ 2 \in WrittenIds

\* C9: a document is flagged for write exactly when it is stale (own version
\* below schemaVersion, or a registered, not excluded embedded field below its
\* schema version); the flag stays with the document through every merge, and
\* the write holds an operation for exactly the flagged documents.
C9_FlagFollowsStaleness ==
  /\ \A w \in DOMAIN documentsByVersion :
       \A k \in 1..Len(documentsByVersion[w].metaData) :
         LET m == documentsByVersion[w].metaData[k]
         IN /\ m.willBeUpdated = ((m.index + 1) \in StalePositions)
            /\ SameOrder =>
                 /\ k <= Len(documentsByVersion[w].documents)
                 /\ documentsByVersion[w].documents[k].id = input[m.index + 1].id
  /\ (pc = "done" /\ collection /\ ~ctx.embedded) =>
       \A i \in Positions : Truthy(input[i]) => ((i \in StalePositions) = (input[i].id \in WrittenIds))

C9_Witness ==
  /\ pc = "done" /\ collection /\ InvokedNames = {"e"}
  /\ ctx.schemaVersion = 1 /\ Len(input) = 2
  /\ Truthy(input[1]) /\ input[1].v = 1 /\ input[1].f["e"] = EmbeddedDoc(0)
  /\ Truthy(input[2]) /\ input[2].v = 0
  /\ FinalBucket.metaData[1].willBeUpdated
  /\ WrittenIds = {1, 2}

\* the registered embedded fields the projection argument sets to false
ExcludedNames ==
  {n \in ctx.embeddedDocumentSchemas : n \in DOMAIN projection /\ projection[n] = FALSE}

WriteOperations ==
  UNION {{bulkWrites[w][o] : o \in 1..Len(bulkWrites[w])} : w \in 1..Len(bulkWrites)}

\* what C10 says about every embedded field the projection excludes, but for
\* the value the write sets
ExcludedFieldLeftAlone(n) ==
  /\ embeddedCalls[n] = <<>>
  /\ \A i \in Positions :
       (Truthy(input[i]) /\ input[i].v = ctx.schemaVersion
          /\ \A x \in ctx.embeddedDocumentSchemas \ ExcludedNames :
               ~(Truthy(input[i].f[x]) /\ input[i].f[x].v < EmbeddedSchemaVersion)) =>
         \A w \in DOMAIN documentsByVersion :
           \A k \in 1..Len(documentsByVersion[w].metaData) :
             documentsByVersion[w].metaData[k].index = i - 1 =>
               ~documentsByVersion[w].metaData[k].willBeUpdated
  /\ pc = "done" =>
       \A j \in 1..Len(returned.value) :
         Truthy(returned.value[j]) =>
           returned.value[j].f[n] = Migrated(ctx, input[returned.value[j].id]).f[n]
  /\ \A op \in WriteOperations : n \notin op.unset

\* C10 as stated: an excluded embedded field's schema is never invoked, the
\* field is not consulted for staleness, not spliced, and the write neither
\* unsets nor overwrites it: what the write sets for it is nothing, or the
\* value the input document carried.
C10_ExcludedUntouchedAsStated ==
  \A n \in ExcludedNames :
    /\ ExcludedFieldLeftAlone(n)
    /\ \A op \in WriteOperations :
         op.document.f[n] \in {Undefined, input[op.filter].f[n]}

\* C10 (amended): an excluded embedded field's schema is never invoked, the
\* field is not consulted for staleness, not spliced and never unset; the
\* write's $set carries for it what the transform chain left in the document,
\* so the stored value changes only if a top-level transform wrote the field.
C10_ExcludedUntouched ==
  \A n \in ExcludedNames :
    /\ ExcludedFieldLeftAlone(n)
    /\ \A op \in WriteOperations :
         op.document.f[n] = Migrated(ctx, input[op.filter]).f[n]

C10_Witness ==
  /\ pc = "done" /\ collection /\ "e" \in ExcludedNames
  /\ ctx.schemaVersion = 1 /\ Len(input) = 1
  /\ Truthy(input[1]) /\ input[1].v = 0 /\ input[1].f["e"] = EmbeddedDoc(0)
  /\ RevisionAt(0).effect = "drop"
  /\ Len(bulkWrites) = 1
  /\ bulkWrites[1][1].unset = {"a"}
  /\ bulkWrites[1][1].document.f["e"] = Undefined

\* the final document the call holds for the identifier of a write operation
FinalDocuments(id) ==
  {FinalBucket.documents[j] : j \in {j \in 1..Len(FinalBucket.documents) :
                                        FinalBucket.documents[j].id = id}}

\* C11: with embedded fields registered, every write operation is an updateOne
\* whose $unset is exactly the fields that were present on the input document,
\* are absent from the final document and are not registered embedded names;
\* no registered name is ever in $unset, and $unset is omitted when empty.
C11_UnsetExact ==
  ctx.hasEmbeddedDocuments =>
    \A op \in WriteOperations :
      LET dropped == {n \in AllFields :
                        /\ input[op.filter].f[n].k # "undefined"
                        /\ op.document.f[n].k = "undefined"
                        /\ n \notin ctx.embeddedDocumentSchemas}
      IN /\ op.type = "updateOne"
         /\ op.document \in FinalDocuments(op.filter)
         /\ op.unset = dropped
         /\ op.unset \cap ctx.embeddedDocumentSchemas = {}
         /\ op.hasUnset = (dropped # {})

C11_Witness ==
  /\ pc = "done" /\ ctx.hasEmbeddedDocuments /\ Len(input) = 2
  /\ Len(bulkWrites) = 1 /\ Len(bulkWrites[1]) = 2
  /\ \E op \in WriteOperations :
       /\ op.hasUnset /\ op.unset = {"a"}
       /\ input[op.filter].f["e"].k = "doc"
       /\ op.document.f["e"].k = "undefined"
  /\ \E op \in WriteOperations :
       op.hasUnset /\ input[op.filter].f["e"].k = "undefined"

\* TRUE iff the projection argument has an entry whose value is not false
HasWhitelistEntry == \E key \in DOMAIN projection : projection[key] # FALSE

\* C12: if any entry of the projection is not false, the call rejects with the
\* invalid-projection error, and in that call no transform is invoked, no
\* nested schema is invoked and no write is issued.
C12_InvalidProjectionRejects ==
  HasWhitelistEntry =>
    /\ pc \in {"await", "normalize", "failed"}
    /\ pc = "failed" => error = "projection"
    /\ returned.shape = "none"
    /\ calls = <<>>
    /\ \A n \in EmbeddedNames : embeddedCalls[n] = <<>>
    /\ bulkWrites = <<>>

C12_Witness ==
  /\ HasWhitelistEntry /\ pc = "failed" /\ error = "projection"
  /\ collection /\ Len(input) = 2
  /\ \A i \in Positions : Truthy(input[i]) /\ input[i].v < ctx.schemaVersion
  /\ ctx.hasEmbeddedDocuments

\* the input positions that hold a document whose _v exceeds schemaVersion
AbovePositions == {i \in Positions : Truthy(input[i]) /\ input[i].v > ctx.schemaVersion}

\* C13 as stated: a document whose _v exceeds schemaVersion is treated as
\* current: the call does not fail on it, returns it unchanged at its original
\* position, applies no transform to it and issues no write for it.
C13_AboveVersionPassesThrough ==
  \A i \in AbovePositions :
    /\ ~(pc = "failed" /\ error = "type")
    /\ pc = "done" =>
         /\ Len(returned.value) >= (IF singleDocument THEN 1 ELSE i)
         /\ returned.value[IF singleDocument THEN 1 ELSE i] = input[i]
    /\ \A c \in CallIndices : i \notin ArgumentIds(c)
    /\ i \notin WrittenIds

\* a call over a newer document alone ends in a TypeError
C13_NewerAloneThrows ==
  /\ pc = "failed" /\ error = "type"
  /\ Len(input) = 1 /\ AbovePositions = {1}

\* a call over a newer document next to an older one returns without it
C13_NewerDropped ==
  /\ pc = "done" /\ Len(input) = 2 /\ AbovePositions = {1}
  /\ Truthy(input[2]) /\ input[2].v < ctx.schemaVersion
  /\ returned.shape = "array" /\ Len(returned.value) = 1
  /\ returned.value[1].id = 2

\* the registered embedded fields the projection does not exclude, for a
\* schema that is not 'embedded'
NonExcludedNames ==
  IF ctx.embedded THEN {} ELSE ctx.embeddedDocumentSchemas \ ExcludedNames

\* TRUE once the call is past the invocation of the nested schemas
NestedInvoked ==
  \/ pc \in {"nested", "migrate", "settle", "persist", "return"}
  \/ pc = "done" /\ Len(input) > 0
  \/ pc = "failed" /\ error # "projection"

\* what the k-th input element contributes to the list of field n
ValueAt(k, n) ==
  IF Truthy(input[k]) THEN input[k].f[n] ELSE [k |-> input[k].k, v |-> 0, hist |-> <<>>]

\* C14: for a schema that is not 'embedded' and a non-empty input of n
\* elements, the nested schema of every registered, not excluded field is
\* invoked exactly once, with a list of length n whose k-th element is that
\* field's value on the k-th input element (the falsy parent itself, or
\* undefined where absent); no other nested schema is invoked.
C14_NestedCalledOnceWithAllValues ==
  /\ \A n \in EmbeddedNames \ NonExcludedNames : embeddedCalls[n] = <<>>
  /\ \A n \in NonExcludedNames :
       /\ Len(embeddedCalls[n]) <= 1
       /\ NestedInvoked =>
            /\ Len(embeddedCalls[n]) = 1
            /\ Len(embeddedCalls[n][1]) = Len(input)
            /\ \A k \in Positions : embeddedCalls[n][1][k] = ValueAt(k, n)

C14_Witness ==
  /\ pc = "done" /\ NonExcludedNames = {"e"} /\ Len(input) = 2
  /\ ~Truthy(input[1])
  /\ Truthy(input[2]) /\ input[2].f["e"] = EmbeddedDoc(0)
  /\ embeddedCalls["e"] = << <<Undefined, EmbeddedDoc(0)>> >>

\* C15: after a successful call, every defined document of the result has,
\* in each registered, not excluded embedded field, the element at its own
\* position of what that field's nested schema returned.
C15_SplicedByPosition ==
  (pc = "done" /\ Len(input) > 0) =>
    \A j \in 1..Len(returned.value) :
      Truthy(returned.value[j]) =>
        \A n \in NonExcludedNames :
          returned.value[j].f[n] = EmbeddedSchemaEnforcer(embeddedCalls[n][1])[j]

C15_Witness ==
  /\ pc = "done" /\ NonExcludedNames = {"e"} /\ Len(input) = 2
  /\ ctx.schemaVersion = 1
  /\ Truthy(input[1]) /\ input[1].v = 0 /\ input[1].f["e"] = EmbeddedDoc(0)
  /\ Truthy(input[2]) /\ input[2].v = 1 /\ input[2].f["e"] = Undefined
  /\ returned.value[1].f["e"] = [k |-> "doc", v |-> 1, hist |-> <<0>>]
  /\ returned.value[2].f["e"] = Undefined

\* C16: the bulk write is issued at most once, and only after every transform
\* invocation, every version check and every nested schema of the call has
\* completed successfully; a call that fails in a transform, in a version
\* check or in a nested schema has issued no write.
C16_WriteComesLast ==
  /\ Len(bulkWrites) <= 1
  /\ bulkWrites # <<>> =>
       /\ pc \in {"return", "done"} \/ (pc = "failed" /\ error = "store")
       /\ version >= ctx.schemaVersion
       /\ PendingIn(promises) = {}
       /\ \A c \in CallIndices :
            /\ Len(calls[c].out) = Len(calls[c].args)
            /\ \A k \in 1..Len(calls[c].out) : calls[c].out[k].v = calls[c].rev + 1
       /\ \A n \in NonExcludedNames :
            /\ n \in DOMAIN embeddedPromises
            /\ embeddedPromises[n].state = "fulfilled"
  /\ error \in {"transform", "mismatch", "nested", "type"} => bulkWrites = <<>>

C16_Witness ==
  /\ pc = "done" /\ Len(bulkWrites) = 1 /\ Len(bulkWrites[1]) = 2
  /\ NonExcludedNames = {"e"}
  /\ Len(calls) = 2 /\ calls[1].kind = "update"

\* C17: a schema constructed as 'embedded' never issues a write, even when
\* called with a collection, and never invokes a nested schema; a nested
\* schema is such a schema and is called with the value list only, so what it
\* returns reaches the store only inside the enclosing call's single write.
C17_EmbeddedNeverWrites ==
  /\ EmbeddedContext.embedded /\ EmbeddedContext.embeddedDocumentSchemas = {}
  /\ ctx.embedded =>
       /\ bulkWrites = <<>>
       /\ \A n \in EmbeddedNames : embeddedCalls[n] = <<>>
       /\ DOMAIN embeddedPromises = {}
  /\ ~ctx.embedded =>
       /\ Len(bulkWrites) <= 1
       /\ \A op \in WriteOperations : \A n \in NonExcludedNames :
            \E j \in 1..Len(result) :
              /\ result[j] = op.document
              /\ op.document.f[n] = EmbeddedSchemaEnforcer(embeddedCalls[n][1])[j]

C17_Witness ==
  /\ ctx.embedded /\ collection /\ pc = "done"
  /\ ctx.schemaVersion = 2 /\ Len(input) = 2
  /\ \A i \in Positions : Truthy(input[i]) /\ input[i].v = 0
  /\ calls # <<>> /\ bulkWrites = <<>>
  /\ returned.value[1].v = 2

\* every transform that answered so far returned as many documents as it got
CountsKept ==
  \A c \in CallIndices : calls[c].out = <<>> \/ Len(calls[c].out) = Len(calls[c].args)

\* the version an input element is bucketed under
EntryVersion(i) == IF Truthy(input[i]) THEN input[i].v ELSE ctx.schemaVersion

\* C18: for transforms that return as many documents as they receive, whenever
\* the driver loop stands at a version, the bucket at that version holds
\* documents and metadata as lists of equal length, its original indices are
\* strictly increasing and are exactly the input positions that entered at or
\* below that version; documents and metadata are paired element by element
\* and each batch transform receives its documents in ascending position while
\* transforms keep the order; when no input document is above schemaVersion
\* the final bucket holds every position once.
C18_MergeInvariant ==
  CountsKept =>
    /\ (pc \in {"migrate", "settle"} /\ version \in DOMAIN documentsByVersion) =>
         LET b == documentsByVersion[version]
             held == 1..Len(b.metaData)
         IN /\ Len(b.documents) = Len(b.metaData)
            /\ \A k, l \in held : k < l => b.metaData[k].index < b.metaData[l].index
            /\ {b.metaData[k].index + 1 : k \in held} =
                 {i \in Positions : EntryVersion(i) <= version}
            /\ SameOrder =>
                 \A k \in held : b.documents[k].id = input[b.metaData[k].index + 1].id
    /\ SameOrder =>
         \A c \in CallIndices : \A k, l \in 1..Len(calls[c].args) :
           k < l => calls[c].args[k].id < calls[c].args[l].id
    /\ ((pc \in {"persist", "return"} \/ (pc = "done" /\ Len(input) > 0))
          /\ \A i \in Positions : EntryVersion(i) <= ctx.schemaVersion) =>
         /\ Len(FinalBucket.documents) = Len(input)
         /\ \A k \in Positions : FinalBucket.metaData[k].index = k - 1

C18_Witness ==
  /\ pc = "migrate" /\ ctx.schemaVersion = 2 /\ version = 1 /\ SameOrder
  /\ Len(input) = 2 /\ calls # <<>>
  /\ Truthy(input[1]) /\ input[1].v = 1
  /\ Truthy(input[2]) /\ input[2].v = 0
  /\ Len(documentsByVersion[1].documents) = 2
  /\ documentsByVersion[1].documents[1] = input[1]
  /\ documentsByVersion[1].documents[2].hist = <<0>>

\* C19: the update calls of a bucket are all started before any of them is
\* awaited, and whatever the order in which they complete, the k-th value
\* Promise.all yields is the answer to the k-th document, so that the
\* returned documents, their positions and the write operations are those
\* the input determines; likewise each nested schema's result is the one for
\* its own field, whatever the order in which the nested schemas complete.
C19_CompletionOrderIrrelevant ==
  /\ pc = "settle" =>
       LET documents == documentsByVersion[version].documents
           started == Len(calls) - Len(documents)
       IN /\ Len(promises) = Len(documents)
          /\ started >= 0
          /\ \A k \in 1..Len(documents) :
               /\ calls[started + k].rev = version
               /\ calls[started + k].args = <<documents[k]>>
               /\ promises[k].state = "fulfilled" =>
                    promises[k].value \in UpdateAnswers(documents, k)
  /\ \A n \in DOMAIN embeddedPromises :
       /\ Len(embeddedCalls[n]) = 1
       /\ embeddedPromises[n].state = "fulfilled" =>
            embeddedPromises[n].value = EmbeddedSchemaEnforcer(embeddedCalls[n][1])
  /\ (pc = "done" /\ Len(input) > 0 /\ SameOrder) =>
       /\ \A i \in Positions : result[i] = MigratedForm(i)
       /\ \A op \in WriteOperations : op.document = MigratedForm(op.filter)
       /\ (collection /\ ~ctx.embedded) => WrittenIds = StalePositions

C19_Witness ==
  /\ pc = "settle" /\ Len(promises) = 2
  /\ promises[1].state = "pending"
  /\ promises[2].state = "fulfilled"
  /\ promises[2].value.id = 2 /\ promises[2].value.v = version + 1

\* what transformInput made of the input, before anything was merged or spliced
BucketedInput == TransformInput(ctx, input, projection).documentsByVersion

\* C20: if a nested schema fails the call fails with that error and no parent
\* document has had an embedded field replaced, also not for the fields whose
\* nested schema succeeded; no field is spliced before the nested schemas of
\* all non-excluded fields have resolved.
C20_NestedFailureSplicesNothing ==
  /\ (\E n \in DOMAIN embeddedPromises : embeddedPromises[n].state = "rejected") =>
       /\ pc = "failed" /\ error = "nested"
       /\ returned.shape = "none"
  /\ (\E n \in DOMAIN embeddedPromises : embeddedPromises[n].state # "fulfilled") =>
       /\ documentsByVersion = BucketedInput
       /\ result = <<>>
       /\ updatedEmbeddedDocuments = <<>>
       /\ calls = <<>>
       /\ bulkWrites = <<>>
  /\ result # <<>> =>
       \A n \in NonExcludedNames :
         n \in DOMAIN embeddedPromises /\ embeddedPromises[n].state = "fulfilled"

C20_Witness ==
  /\ pc = "failed" /\ error = "nested" /\ NonExcludedNames = {"e", "f"}
  /\ embeddedPromises["e"].state = "fulfilled"
  /\ embeddedPromises["f"].state = "rejected"
  /\ Len(input) = 1 /\ Truthy(input[1]) /\ input[1].f["e"] = EmbeddedDoc(0)
  /\ embeddedPromises["e"].value[1] = [k |-> "doc", v |-> 1, hist |-> <<0>>]
  /\ documentsByVersion[0].documents[1] = input[1]

\* C21: the shape of a write follows the schema's registry of embedded
\* fields and not the projection: without a registered field every stale
\* document is written by a replaceOne matched by its identifier that holds
\* the whole final document, and with a registered field, also when the
\* projection excludes every one of them, by an updateOne matched by its
\* identifier whose $set is the final document, never by a replaceOne.
C21_ShapeFollowsRegistry ==
  /\ \A op \in WriteOperations :
       /\ op.type = IF ctx.embeddedDocumentSchemas = {} THEN "replaceOne" ELSE "updateOne"
       /\ op.document.id = op.filter
       /\ op.document \in FinalDocuments(op.filter)
       /\ op.document \in {result[j] : j \in 1..Len(result)}
  /\ (collection /\ ~ctx.embedded /\ WriterRan) => WrittenIds = StalePositions

C21_Witness ==
  /\ pc = "done" /\ Len(input) = 2
  /\ ctx.embeddedDocumentSchemas = {"e"} /\ ExcludedNames = {"e"}
  /\ Len(bulkWrites) = 1 /\ Len(bulkWrites[1]) = 2
  /\ \A op \in WriteOperations : op.type = "updateOne" /\ op.document = result[op.filter]

\* the lowest version present in the input
LowestVersion == Min({EntryVersion(i) : i \in Positions})

\* the revisions invoked so far
RevisionsCalled == {calls[c].rev : c \in CallIndices}

LoopRunning == InLoop \/ pc = "settle"
LoopLeft == pc \in {"persist", "return", "done"} \/ (pc = "failed" /\ error = "store")

\* what the loop does, as a state predicate
LoopIsBounded ==
  /\ LoopRunning =>
       /\ version \in DOMAIN documentsByVersion
       /\ Len(documentsByVersion[version].documents) > 0
       /\ LowestVersion <= version
       /\ RevisionsCalled \in {LowestVersion..(version - 1), LowestVersion..version}
  /\ error # "type"
  /\ Len(input) = 0 => calls = <<>>
  /\ (LoopLeft /\ Len(input) > 0) =>
       /\ version = ctx.schemaVersion
       /\ RevisionsCalled = LowestVersion..(ctx.schemaVersion - 1)
       /\ Cardinality(RevisionsCalled) = ctx.schemaVersion - LowestVersion
  /\ (pc = "migrate" /\ Len(input) > 0 /\ LowestVersion = ctx.schemaVersion) =>
       /\ version = ctx.schemaVersion
       /\ calls = <<>>
       /\ documentsByVersion = BucketedInput
       /\ FinalBucket.documents = input

\* C22: when every transform invocation settles the driver loop ends; it runs
\* one iteration for each revision from the lowest version present in the
\* input up to schemaVersion - 1, none when no document is below
\* schemaVersion (no transform is invoked then and the loop leaves the bucket
\* of the input as it was), and every bucket it reads exists, also when a
\* version between the lowest and schemaVersion is absent from the input.
C22_LoopTerminates == []LoopIsBounded /\ <>[]~LoopRunning

C22_Witness ==
  /\ pc = "done" /\ ctx.schemaVersion = 2 /\ Len(input) = 2
  /\ input[1].v = 0 /\ input[2].v = 2
  /\ RevisionsCalled = {0, 1}
  /\ Len(returned.value) = 2 /\ returned.value[1].hist = <<0, 1>>

NothingInvoked ==
  /\ calls = <<>>
  /\ \A n \in EmbeddedNames : embeddedCalls[n] = <<>>
  /\ bulkWrites = <<>>

\* C23: within one call the input is awaited first, then the projection is
\* validated, then the documents are bucketed, then every nested schema is
\* started and awaited, and the first top-level transform is invoked only
\* when all of them have resolved; a call that fails in a nested schema has
\* invoked no top-level transform.
C23_OrderOfOneCall ==
  /\ rawInput.pending =>
       /\ pc = "await" /\ error = "none"
       /\ documentsByVersion = <<>> /\ NothingInvoked
  /\ error = "projection" => documentsByVersion = <<>> /\ NothingInvoked
  /\ Bucketed =>
       /\ ~rawInput.pending /\ ~HasWhitelistEntry
       /\ input = rawInput.value
  /\ (\E n \in EmbeddedNames : embeddedCalls[n] # <<>>) =>
       /\ Bucketed
       /\ \A n \in NonExcludedNames :
            embeddedCalls[n] = <<[k \in Positions |-> FieldOf(input[k], n)]>>
  /\ (Bucketed /\ pc \notin {"bucket", "embedded"} /\ \E n \in NonExcludedNames :
        n \notin DOMAIN embeddedPromises \/ embeddedPromises[n].state # "fulfilled") =>
       /\ pc \in {"nested", "failed"}
       /\ calls = <<>>
  /\ calls # <<>> =>
       /\ Bucketed
       /\ \A n \in NonExcludedNames :
            /\ n \in DOMAIN embeddedPromises
            /\ embeddedPromises[n].state = "fulfilled"
            /\ embeddedCalls[n] # <<>>
  /\ error = "nested" => calls = <<>>

C23_Witness ==
  /\ pc = "failed" /\ error = "nested"
  /\ ctx.schemaVersion = 1 /\ NonExcludedNames = {"e"}
  /\ Len(input) = 2 /\ Truthy(input[1]) /\ input[1].v = 0
  /\ Len(embeddedCalls["e"]) = 1
  /\ calls = <<>>

\* what the transform chain alone leaves in field n of the document returned at position j
ChainValue(j, n) == Migrated(ctx, input[returned.value[j].id]).f[n]

\* C24: in every defined document a successful call returns, each registered,
\* not excluded embedded field holds what the nested schema makes of the value
\* the input element at that position had in that field, whatever a top-level
\* transform did to the field; where the input document had no such field the
\* returned field is undefined, also when a transform wrote one.  The write
\* operations carry the same values.
C24_SpliceOverwritesTransforms ==
  (pc = "done" /\ Len(input) > 0) =>
    /\ \A j \in 1..Len(returned.value) :
         Truthy(returned.value[j]) =>
           \A n \in NonExcludedNames :
             /\ returned.value[j].f[n] = EmbeddedSchemaEnforcer(<<FieldOf(input[j], n)>>)[1]
             /\ (Truthy(input[j]) /\ input[j].f[n].k = "undefined") =>
                  returned.value[j].f[n] = Undefined
    /\ \A op \in WriteOperations :
         \A n \in NonExcludedNames :
           \E j \in 1..Len(result) :
             /\ result[j] = op.document
             /\ op.document.f[n] = EmbeddedSchemaEnforcer(<<FieldOf(input[j], n)>>)[1]

C24_Witness ==
  /\ pc = "done" /\ NonExcludedNames = {"e"} /\ Len(input) = 2
  /\ ctx.schemaVersion = 1 /\ RevisionAt(0).effect = "setE"
  /\ input[1].k = "doc" /\ input[1].v = 0 /\ input[1].f["e"] = Undefined
  /\ input[2].k = "doc" /\ input[2].v = 0 /\ input[2].f["e"] = EmbeddedDoc(0)
  /\ ChainValue(1, "e") = TransformMadeDoc
  /\ returned.value[1].f["e"] = Undefined
  /\ returned.value[2].f["e"] = [k |-> "doc", v |-> 1, hist |-> <<0>>]
  /\ \E op \in WriteOperations : op.filter = 1 /\ op.document.f["e"] = Undefined

\* the invocations of batch transforms whose output was merged
MergedBatchCalls ==
  {c \in CallIndices :
     /\ calls[c].kind = "updateMany"
     /\ ~(c = Len(calls) /\ pc = "failed" /\ error \in {"mismatch", "transform"})}

\* invocation c returned one document per document passed, in the same order
KeptCountAndOrder(c) ==
  /\ Len(calls[c].out) = Len(calls[c].args)
  /\ \A k \in 1..Len(calls[c].args) : calls[c].out[k].id = calls[c].args[k].id

\* the returned array holds at every position the element of the input's position
InOriginalOrder ==
  /\ Len(returned.value) = Len(input)
  /\ \A j \in 1..Len(input) :
       /\ returned.value[j].k = input[j].k
       /\ returned.value[j].id = input[j].id

\* the k-th output of a batch transform stands in the next bucket with the
\* Position Metadata of the k-th document passed
OutputsInheritByPosition ==
  \A c \in MergedBatchCalls :
    LET r == calls[c].rev
        from == documentsByVersion[r]
        to == documentsByVersion[r + 1]
    IN /\ from.documents = calls[c].args
       /\ \A k \in 1..Len(calls[c].out) :
            k <= Len(from.metaData) =>
              \E j \in 1..Len(to.metaData) :
                /\ to.metaData[j] = from.metaData[k]
                /\ j <= Len(to.documents)
                /\ to.documents[j].id = calls[c].out[k].id
                /\ to.documents[j].hist = calls[c].out[k].hist

\* C25 as stated: outputs are associated with positions by list position
\* only, and the returned array is in original order only if every batch
\* transform returned as many documents as it received, in the same order.
C25_PositionOnlyAsStated ==
  /\ OutputsInheritByPosition
  /\ (pc = "done" /\ Len(input) > 0 /\ InOriginalOrder) =>
       \A c \in MergedBatchCalls : KeptCountAndOrder(c)

\* C25 (amended): the k-th document a batch transform returns takes the
\* original index and write flag of the k-th document passed to it, whatever
\* its identifier; so the returned array is in original order whenever every
\* batch transform returned as many documents as it received, in the same
\* order, and it is not when exactly one batch transform reordered its
\* documents.  Original order does not imply well-behaved transforms: two
\* reorderings can cancel and the merge can drop a surplus document.
C25_PositionOnly ==
  /\ OutputsInheritByPosition
  /\ (pc = "done" /\ Len(input) > 0) =>
       LET unkept == {c \in MergedBatchCalls : ~KeptCountAndOrder(c)}
       IN /\ (unkept = {} /\ PendingIn(promises) = {}) => InOriginalOrder
          /\ (Cardinality(unkept) = 1
                /\ \A c \in unkept : Len(calls[c].out) = Len(calls[c].args)) =>
               ~InOriginalOrder

C25_Witness ==
  /\ pc = "done" /\ ctx.schemaVersion = 2 /\ Len(input) = 2
  /\ input[1].v = 0 /\ input[2].v = 0
  /\ Len(calls) = 2
  /\ ~KeptCountAndOrder(1) /\ Len(calls[1].out) = 2
  /\ KeptCountAndOrder(2)
  /\ returned.value[1].id = 2 /\ returned.value[2].id = 1
  /\ returned.value[1].hist = <<0, 1>>

EmptyArrayInput == rawInput.array /\ Len(rawInput.value) = 0

\* C26: the projection is validated before the empty-input shortcut: a call
\* with an empty array and a projection holding an entry that is not false
\* rejects with the invalid-projection error and returns nothing, and a call
\* with an empty array and a valid projection returns an empty array; neither
\* buckets, invokes or writes anything.
C26_ValidationBeforeShortcut ==
  EmptyArrayInput =>
    /\ documentsByVersion = <<>>
    /\ NothingInvoked
    /\ IF HasWhitelistEntry
       THEN /\ pc \in {"await", "normalize", "failed"}
            /\ pc = "failed" => error = "projection"
            /\ returned.shape = "none"
       ELSE /\ pc \in {"await", "normalize", "done"}
            /\ error = "none"
            /\ pc = "done" => returned = [shape |-> "array", value |-> <<>>]
            /\ pc # "done" => returned.shape = "none"

C26_Witness ==
  /\ EmptyArrayInput /\ HasWhitelistEntry
  /\ pc = "failed" /\ error = "projection"
  /\ input = <<>> /\ ~singleDocument
  /\ returned.shape = "none"

====
